---- MODULE Spec2Model ----
(***************************************************************************)
(* A model of export-schema.py: the configuration resolver                 *)
(* (get_config_value), the row-to-tree reshapers (get_table_constraints,   *)
(* get_table_indexes, get_table_foreign_keys, get_table_info,              *)
(* get_table_columns) and the run of main().                               *)
(*                                                                         *)
(* Three specifications share the variables:                               *)
(*   SpecConfig   get_config_value applied to every combination of tiers   *)
(*   SpecReshape  the reshapers of one table, one catalog row per step     *)
(*   Spec         one run of main()                                        *)
(*                                                                         *)
(* Python values: None is the empty tuple and a present value v is <<v>>   *)
(* wherever a value may be None.  Strings the program inspects character   *)
(* by character (index names, table names, the table filter) are tuples of *)
(* one-character strings; the other strings are TLA+ strings.              *)
(***************************************************************************)
EXTENDS Integers, Sequences, FiniteSets, TLC

VARIABLES
    pc,          \* position of the run / of the reshaper / of the resolver call
    conf,        \* main: the resolved settings (None before resolution)
    exit_code,   \* main: process exit status (None while running)
    error,       \* main: the exception or exit that ended the run ("none" if none)
    conn,        \* main: "none" | "open" | "closed"
    connects,    \* main: successful pymysql.connect calls
    queries,     \* main: cursor.execute calls issued
    fs,          \* main: the output directory and output file
    fs0,         \* main: fs as it was when the process started
    opens,       \* main: times the output file was opened for writing
    all_tables,  \* main: the catalog listing of base tables
    cur,         \* main: index in all_tables of the next table of the loop
    tables_out,  \* main: the table records built so far
    schema,      \* reshape: the table's content in the catalog
    pending,     \* reshape: rows of the running query not yet iterated
    buckets,     \* reshape: the dictionaries the running reshaper fills
    out,         \* reshape: what the reshapers have returned
    info_row,    \* reshape: the row fetchone() gave get_table_info
    call         \* config: the arguments and the result of get_config_value

vars == <<pc, conf, exit_code, error, conn, connects, queries, fs, fs0, opens,
          all_tables, cur, tables_out, schema, pending, buckets, out,
          info_row, call>>

mainVars == <<conf, exit_code, error, conn, connects, queries, fs, fs0, opens,
              all_tables, cur, tables_out>>

reshapeVars == <<schema, pending, buckets, out, info_row>>

----------------------------------------------------------------------------
(* Python values *)

None == <<>>

Some(v) == <<v>>

IsNone(x) == x = None

Val(x) == x[1]

(* A Python dict: the <<key, value>> pairs in insertion order.  Assigning  *)
(* to a key already present keeps the key's place.                         *)
EmptyDict == <<>>

DictHas(d, k) == \E i \in 1..Len(d) : d[i][1] = k

DictGet(d, k) == d[CHOOSE i \in 1..Len(d) : d[i][1] = k][2]

DictSet(d, k, v) ==
    IF DictHas(d, k)
    THEN [i \in 1..Len(d) |-> IF d[i][1] = k THEN <<k, v>> ELSE d[i]]
    ELSE Append(d, <<k, v>>)

DictKeys(d) == [i \in 1..Len(d) |-> d[i][1]]

DictValues(d) == [i \in 1..Len(d) |-> d[i][2]]

(* sorted() of a list of integers *)
RECURSIVE InsertSorted(_, _)
InsertSorted(s, x) ==
    IF s = <<>> THEN <<x>>
    ELSE IF x < Head(s) THEN <<x>> \o s
    ELSE <<Head(s)>> \o InsertSorted(Tail(s), x)

RECURSIVE Sorted(_)
Sorted(s) == IF s = <<>> THEN <<>> ELSE InsertSorted(Sorted(Tail(s)), Head(s))

Range(s) == {s[i] : i \in 1..Len(s)}

(* the orders in which the rows of a result set can arrive *)
Orders(S) == {s \in [1..Cardinality(S) -> S] : Range(s) = S}

----------------------------------------------------------------------------
(* Configuration: load_config_file and get_config_value *)

(* load_config_file: {} when config.ini does not exist or does not parse,  *)
(* the ConfigParser otherwise.  A ConfigParser is always truthy, {} is not.*)
NoConfig == [parser |-> FALSE, sections |-> <<>>]

load_config_file(file) ==
    IF file.exists /\ file.parses
    THEN [parser |-> TRUE, sections |-> file.sections]
    ELSE NoConfig

getenv(environ, env_var) ==
    IF env_var \in DOMAIN environ THEN Some(environ[env_var]) ELSE None

ConfigHas(config_file, section, key) ==
    /\ config_file.parser
    /\ section \in DOMAIN config_file.sections
    /\ key \in DOMAIN config_file.sections[section]

(* a mutant: "if cli_arg:" and "if env_val:" instead of "is not None" *)
GetConfigValueTruthy(cli_arg, env_var, environ, config_file, section, key, default) ==
    IF ~IsNone(cli_arg) /\ Val(cli_arg) # "" THEN cli_arg
    ELSE IF ~IsNone(getenv(environ, env_var)) /\ Val(getenv(environ, env_var)) # ""
         THEN getenv(environ, env_var)
    ELSE IF ConfigHas(config_file, section, key)
         THEN Some(config_file.sections[section][key])
    ELSE default

(* get_config_value; os.getenv reads the process environment, here environ *)
get_config_value(cli_arg, env_var, environ, config_file, section, key, default) ==
    IF ~IsNone(cli_arg) THEN cli_arg
    ELSE IF ~IsNone(getenv(environ, env_var)) THEN getenv(environ, env_var)
    ELSE IF ConfigHas(config_file, section, key)
         THEN Some(config_file.sections[section][key])
    ELSE default

----------------------------------------------------------------------------
(* Character strings *)

LowerLetters ==
    <<"a","b","c","d","e","f","g","h","i","j","k","l","m",
      "n","o","p","q","r","s","t","u","v","w","x","y","z">>

UpperLetters ==
    <<"A","B","C","D","E","F","G","H","I","J","K","L","M",
      "N","O","P","Q","R","S","T","U","V","W","X","Y","Z">>

UpperChar(c) ==
    IF \E i \in 1..Len(LowerLetters) : LowerLetters[i] = c
    THEN UpperLetters[CHOOSE i \in 1..Len(LowerLetters) : LowerLetters[i] = c]
    ELSE c

(* str.upper() *)
Upper(s) == [i \in 1..Len(s) |-> UpperChar(s[i])]

PRIMARY == <<"P","R","I","M","A","R","Y">>

(* a mutant: the comparison without upper() *)
IsPrimaryNameExact(name) == name = PRIMARY

(* name.upper() == 'PRIMARY' *)
IsPrimaryName(name) == Upper(name) = PRIMARY

----------------------------------------------------------------------------
(* The catalog: what INFORMATION_SCHEMA holds for one table, and the rows  *)
(* each query of the program selects from it.                              *)

MaxKeyCols == 2

ColumnNames == <<"b", "a", "d", "c">>

(* a key of n columns of the table in declared key order, which is not the *)
(* alphabetical one: the n columns that follow column o, cyclically        *)
KeyAt(o, n) == [i \in 1..n |-> ColumnNames[((o + i - 1) % Len(ColumnNames)) + 1]]

Keys(o) == {KeyAt(o, n) : n \in 1..MaxKeyCols}

RefColumnNames == <<"x", "y", "z", "w">>

RefKey(n) == [i \in 1..n |-> RefColumnNames[i]]

(* the names under which a server may report the primary key's index *)
PrimaryIndexNames ==
    {PRIMARY, <<"p","r","i","m","a","r","y">>, <<"P","r","i","m","a","r","y">>}

NameU1 == <<"u","q","_","a">>

NameU2 == <<"U","Q","_","B">>

NameIx == <<"i","x","_","p","r","i","m","a","r","y">>

NameFk == <<"f","k","_","r">>

UniqueSets ==
    {{}} \cup {{[name |-> NameU1, columns |-> k]} : k \in Keys(1)}
         \cup {{[name |-> NameU1, columns |-> KeyAt(1, MaxKeyCols)],
                [name |-> NameU2, columns |-> KeyAt(2, 1)]}}

IndexSets == {{}} \cup {{[name |-> NameIx, columns |-> k]} : k \in Keys(3)}

ForeignKeySets ==
    {{}} \cup {{[name |-> NameFk, columns |-> KeyAt(2, n), ref_table |-> "parent",
                 ref_columns |-> RefKey(n), on_update |-> "CASCADE",
                 on_delete |-> "RESTRICT"]} : n \in 1..MaxKeyCols}

AllSchemas ==
    {[pk |-> <<>>, pk_index_name |-> PRIMARY, uniques |-> u, indexes |-> x, fks |-> f] :
        u \in UniqueSets, x \in IndexSets, f \in ForeignKeySets}
    \cup
    {[pk |-> k, pk_index_name |-> n, uniques |-> u, indexes |-> x, fks |-> f] :
        k \in Keys(0), n \in PrimaryIndexNames,
        u \in UniqueSets, x \in IndexSets, f \in ForeignKeySets}

(* INFORMATION_SCHEMA.COLUMNS ... ORDER BY ORDINAL_POSITION: the table has *)
(* the columns of ColumnNames; the odd ones have no default.               *)
ColumnRows(s) ==
    [i \in 1..Len(ColumnNames) |->
        [COLUMN_NAME |-> ColumnNames[i], COLUMN_TYPE |-> "int",
         IS_NULLABLE |-> IF i % 2 = 1 THEN "NO" ELSE "YES",
         COLUMN_DEFAULT |-> IF i % 2 = 1 THEN None ELSE Some("0"),
         EXTRA |-> "", COLUMN_COMMENT |-> "", ORDINAL_POSITION |-> i]]

(* TABLE_CONSTRAINTS JOIN KEY_COLUMN_USAGE: one row per column of the      *)
(* primary key, of each unique constraint and of each foreign key.         *)
ConstraintRows(s) ==
    {[CONSTRAINT_NAME |-> PRIMARY, CONSTRAINT_TYPE |-> "PRIMARY KEY",
      COLUMN_NAME |-> s.pk[i], ORDINAL_POSITION |-> i] : i \in 1..Len(s.pk)}
    \cup UNION {{[CONSTRAINT_NAME |-> u.name, CONSTRAINT_TYPE |-> "UNIQUE",
                  COLUMN_NAME |-> u.columns[i], ORDINAL_POSITION |-> i] :
                    i \in 1..Len(u.columns)} : u \in s.uniques}
    \cup UNION {{[CONSTRAINT_NAME |-> f.name, CONSTRAINT_TYPE |-> "FOREIGN KEY",
                  COLUMN_NAME |-> f.columns[i], ORDINAL_POSITION |-> i] :
                    i \in 1..Len(f.columns)} : f \in s.fks}

(* INFORMATION_SCHEMA.STATISTICS: one row per column of the primary key's  *)
(* index, of each unique constraint's index and of each other index.       *)
IndexRows(s) ==
    {[INDEX_NAME |-> s.pk_index_name, NON_UNIQUE |-> 0,
      SEQ_IN_INDEX |-> i, COLUMN_NAME |-> s.pk[i]] : i \in 1..Len(s.pk)}
    \cup UNION {{[INDEX_NAME |-> u.name, NON_UNIQUE |-> 0,
                  SEQ_IN_INDEX |-> i, COLUMN_NAME |-> u.columns[i]] :
                    i \in 1..Len(u.columns)} : u \in s.uniques}
    \cup UNION {{[INDEX_NAME |-> x.name, NON_UNIQUE |-> 1,
                  SEQ_IN_INDEX |-> i, COLUMN_NAME |-> x.columns[i]] :
                    i \in 1..Len(x.columns)} : x \in s.indexes}

(* KEY_COLUMN_USAGE JOIN REFERENTIAL_CONSTRAINTS, referenced table not     *)
(* NULL: one row per column of each foreign key.                           *)
ForeignKeyRows(s) ==
    UNION {{[CONSTRAINT_NAME |-> f.name, COLUMN_NAME |-> f.columns[i],
             ref_table |-> f.ref_table, ref_column |-> f.ref_columns[i],
             UPDATE_RULE |-> f.on_update, DELETE_RULE |-> f.on_delete] :
                i \in 1..Len(f.columns)} : f \in s.fks}

MaxRows == 5

(* the tables whose queries return at most MaxRows rows *)
Schemas ==
    {s \in AllSchemas : /\ Cardinality(ConstraintRows(s)) <= MaxRows
                        /\ Cardinality(IndexRows(s)) <= MaxRows}

(* INFORMATION_SCHEMA.TABLES, fetchone(): no row, or a row whose fields    *)
(* may be NULL.                                                            *)
InfoRows ==
    {None} \cup
    {Some([TABLE_ROWS |-> r, ENGINE |-> e, TABLE_COLLATION |-> c]) :
        r \in {None, Some(5)}, e \in {None, Some("InnoDB")},
        c \in {None, Some("utf8mb4_general_ci")}}

(* SHOW CREATE TABLE, fetchone(): no row, a row without the 'Create Table' *)
(* key, or a row with it.                                                  *)
DdlRows ==
    {None, Some([Table |-> "t"]),
     Some([Table |-> "t", CreateTable |-> "CREATE TABLE t"])}

----------------------------------------------------------------------------
(* The reshapers.  Each is a loop over the fetched rows (one Step per row) *)
(* followed by the flattening of the dictionaries it filled.               *)

(* a mutant: the values in insertion order, without sorted() *)
FlattenInsertionOrder(cols) == DictValues(cols)

(* [cols[pos] for pos in sorted(cols.keys())] *)
FlattenSorted(cols) ==
    [i \in 1..Len(cols) |-> DictGet(cols, Sorted(DictKeys(cols))[i])]

(* get_table_columns *)
get_table_columns(rows) ==
    [i \in 1..Len(rows) |->
        [name |-> rows[i].COLUMN_NAME, type |-> rows[i].COLUMN_TYPE,
         nullable |-> rows[i].IS_NULLABLE = "YES",
         default |-> rows[i].COLUMN_DEFAULT, extra |-> rows[i].EXTRA,
         comment |-> rows[i].COLUMN_COMMENT,
         position |-> rows[i].ORDINAL_POSITION]]

(* get_table_constraints *)
ConstraintsInit == [primary_key |-> EmptyDict, unique_constraints |-> EmptyDict]

ConstraintStep(st, row) ==
    IF row.CONSTRAINT_TYPE = "PRIMARY KEY"
    THEN [st EXCEPT !.primary_key =
             DictSet(@, row.ORDINAL_POSITION, row.COLUMN_NAME)]
    ELSE IF row.CONSTRAINT_TYPE = "UNIQUE"
    THEN LET name == row.CONSTRAINT_NAME
             uc == IF DictHas(st.unique_constraints, name)
                   THEN st.unique_constraints
                   ELSE DictSet(st.unique_constraints, name, EmptyDict)
         IN  [st EXCEPT !.unique_constraints =
                 DictSet(uc, name, DictSet(DictGet(uc, name),
                                           row.ORDINAL_POSITION, row.COLUMN_NAME))]
    ELSE st

ConstraintsReturn(st) ==
    [primary_key |-> FlattenSorted(st.primary_key),
     unique |-> [i \in 1..Len(st.unique_constraints) |->
                    [name |-> st.unique_constraints[i][1],
                     columns |-> FlattenSorted(st.unique_constraints[i][2])]]]

(* "for row in rows" *)
RECURSIVE ConstraintLoop(_, _)
ConstraintLoop(st, rows) ==
    IF rows = <<>> THEN st
    ELSE ConstraintLoop(ConstraintStep(st, Head(rows)), Tail(rows))

get_table_constraints(rows) ==
    ConstraintsReturn(ConstraintLoop(ConstraintsInit, rows))

(* get_table_indexes *)
(* a mutant: each row replaces the columns gathered for its index *)
IndexStepOverwrite(index_buckets, row) ==
    LET index_name == row.INDEX_NAME
        b == IF DictHas(index_buckets, index_name)
             THEN index_buckets
             ELSE DictSet(index_buckets, index_name,
                          [name |-> index_name, unique |-> row.NON_UNIQUE = 0,
                           columns |-> EmptyDict])
        data == DictGet(b, index_name)
    IN  DictSet(b, index_name,
                [data EXCEPT !.columns = DictSet(EmptyDict, row.SEQ_IN_INDEX, row.COLUMN_NAME)])

IndexStep(index_buckets, row) ==
    LET index_name == row.INDEX_NAME
        b == IF DictHas(index_buckets, index_name)
             THEN index_buckets
             ELSE DictSet(index_buckets, index_name,
                          [name |-> index_name, unique |-> row.NON_UNIQUE = 0,
                           columns |-> EmptyDict])
        data == DictGet(b, index_name)
    IN  DictSet(b, index_name,
                [data EXCEPT !.columns = DictSet(@, row.SEQ_IN_INDEX, row.COLUMN_NAME)])

IndexesReturn(index_buckets) ==
    LET Kept(item) == ~IsPrimaryName(item[1])
        kept == SelectSeq(index_buckets, Kept)
    IN  [i \in 1..Len(kept) |->
            [name |-> kept[i][1], unique |-> kept[i][2].unique,
             columns |-> FlattenSorted(kept[i][2].columns)]]

(* "for row in rows" *)
RECURSIVE IndexLoop(_, _)
IndexLoop(index_buckets, rows) ==
    IF rows = <<>> THEN index_buckets
    ELSE IndexLoop(IndexStep(index_buckets, Head(rows)), Tail(rows))

get_table_indexes(rows) == IndexesReturn(IndexLoop(EmptyDict, rows))

(* get_table_foreign_keys *)
(* a mutant: the referenced column is put in front of the list *)
ForeignKeyStepPrepend(fk_buckets, row) ==
    LET constraint_name == row.CONSTRAINT_NAME
        b == IF DictHas(fk_buckets, constraint_name)
             THEN fk_buckets
             ELSE DictSet(fk_buckets, constraint_name,
                          [name |-> constraint_name, columns |-> <<>>,
                           ref_table |-> row.ref_table, ref_columns |-> <<>>,
                           on_update |-> row.UPDATE_RULE,
                           on_delete |-> row.DELETE_RULE])
        fk == DictGet(b, constraint_name)
    IN  DictSet(b, constraint_name,
                [fk EXCEPT !.columns = Append(@, row.COLUMN_NAME),
                           !.ref_columns = <<row.ref_column>> \o @])

ForeignKeyStep(fk_buckets, row) ==
    LET constraint_name == row.CONSTRAINT_NAME
        b == IF DictHas(fk_buckets, constraint_name)
             THEN fk_buckets
             ELSE DictSet(fk_buckets, constraint_name,
                          [name |-> constraint_name, columns |-> <<>>,
                           ref_table |-> row.ref_table, ref_columns |-> <<>>,
                           on_update |-> row.UPDATE_RULE,
                           on_delete |-> row.DELETE_RULE])
        fk == DictGet(b, constraint_name)
    IN  DictSet(b, constraint_name,
                [fk EXCEPT !.columns = Append(@, row.COLUMN_NAME),
                           !.ref_columns = Append(@, row.ref_column)])

ForeignKeysReturn(fk_buckets) == DictValues(fk_buckets)

(* "for row in rows" *)
RECURSIVE ForeignKeyLoop(_, _)
ForeignKeyLoop(fk_buckets, rows) ==
    IF rows = <<>> THEN fk_buckets
    ELSE ForeignKeyLoop(ForeignKeyStep(fk_buckets, Head(rows)), Tail(rows))

get_table_foreign_keys(rows) ==
    ForeignKeysReturn(ForeignKeyLoop(EmptyDict, rows))

(* get_table_info; int() of the integer the driver returns is that integer *)
get_table_info(row) ==
    IF ~IsNone(row)
    THEN [row_count_est |-> IF ~IsNone(Val(row).TABLE_ROWS)
                            THEN Val(row).TABLE_ROWS ELSE None,
          engine |-> Val(row).ENGINE,
          collation |-> Val(row).TABLE_COLLATION]
    ELSE [row_count_est |-> None, engine |-> None, collation |-> None]

(* get_table_ddl: row.get('Create Table', '') *)
get_table_ddl(row) ==
    IF ~IsNone(row)
    THEN IF "CreateTable" \in DOMAIN Val(row) THEN Val(row).CreateTable ELSE ""
    ELSE ""

(* the record main() appends to tables_out *)
TableRecord(table, columns, constraints, indexes, foreign_keys, table_info, ddl) ==
    [name |-> table, columns |-> columns,
     primary_key |-> constraints.primary_key, unique |-> constraints.unique,
     indexes |-> indexes, foreign_keys |-> foreign_keys,
     table_info |-> table_info, ddl |-> ddl]

----------------------------------------------------------------------------
(* Values of the variables a specification does not use *)

NoFiles == [dir |-> "absent", file |-> "absent"]

MainIdle ==
    /\ conf = None /\ exit_code = None /\ error = "none"
    /\ conn = "none" /\ connects = 0 /\ queries = 0
    /\ fs = NoFiles /\ fs0 = NoFiles /\ opens = 0
    /\ all_tables = <<>> /\ cur = 1 /\ tables_out = <<>>

ReshapeIdle ==
    /\ schema = None /\ pending = {} /\ buckets = EmptyDict
    /\ out = <<>> /\ info_row = None

NoCall == <<>>

----------------------------------------------------------------------------
(* SpecReshape: the reshapers applied to one table, in the order in which  *)
(* main() calls them; the rows of a query arrive in any order.             *)

InitReshape ==
    /\ pc = "r_columns"
    /\ schema \in Schemas
    /\ pending = {} /\ buckets = EmptyDict /\ out = <<>> /\ info_row = None
    /\ MainIdle
    /\ call = NoCall

RColumns ==
    /\ pc = "r_columns"
    /\ out' = ("columns" :> get_table_columns(ColumnRows(schema)))
    /\ pc' = "r_constraints_fetch"
    /\ UNCHANGED <<schema, pending, buckets, info_row, call>>
    /\ UNCHANGED mainVars

RConstraintsFetch ==
    /\ pc = "r_constraints_fetch"
    /\ pending' = ConstraintRows(schema)
    /\ buckets' = ConstraintsInit
    /\ pc' = "r_constraints"
    /\ UNCHANGED <<schema, out, info_row, call>>
    /\ UNCHANGED mainVars

RConstraintsRow ==
    /\ pc = "r_constraints"
    /\ \E row \in pending :
        /\ buckets' = ConstraintStep(buckets, row)
        /\ pending' = pending \ {row}
    /\ UNCHANGED <<pc, schema, out, info_row, call>>
    /\ UNCHANGED mainVars

RConstraintsReturn ==
    /\ pc = "r_constraints"
    /\ pending = {}
    /\ out' = out @@ ("primary_key" :> ConstraintsReturn(buckets).primary_key)
                  @@ ("unique" :> ConstraintsReturn(buckets).unique)
    /\ pc' = "r_indexes_fetch"
    /\ UNCHANGED <<schema, pending, buckets, info_row, call>>
    /\ UNCHANGED mainVars

RIndexesFetch ==
    /\ pc = "r_indexes_fetch"
    /\ pending' = IndexRows(schema)
    /\ buckets' = EmptyDict
    /\ pc' = "r_indexes"
    /\ UNCHANGED <<schema, out, info_row, call>>
    /\ UNCHANGED mainVars

RIndexesRow ==
    /\ pc = "r_indexes"
    /\ \E row \in pending :
        /\ buckets' = IndexStep(buckets, row)
        /\ pending' = pending \ {row}
    /\ UNCHANGED <<pc, schema, out, info_row, call>>
    /\ UNCHANGED mainVars

RIndexesReturn ==
    /\ pc = "r_indexes"
    /\ pending = {}
    /\ out' = out @@ ("indexes" :> IndexesReturn(buckets))
    /\ pc' = "r_foreign_keys_fetch"
    /\ UNCHANGED <<schema, pending, buckets, info_row, call>>
    /\ UNCHANGED mainVars

RForeignKeysFetch ==
    /\ pc = "r_foreign_keys_fetch"
    /\ pending' = ForeignKeyRows(schema)
    /\ buckets' = EmptyDict
    /\ pc' = "r_foreign_keys"
    /\ UNCHANGED <<schema, out, info_row, call>>
    /\ UNCHANGED mainVars

RForeignKeysRow ==
    /\ pc = "r_foreign_keys"
    /\ \E row \in pending :
        /\ buckets' = ForeignKeyStep(buckets, row)
        /\ pending' = pending \ {row}
    /\ UNCHANGED <<pc, schema, out, info_row, call>>
    /\ UNCHANGED mainVars

RForeignKeysReturn ==
    /\ pc = "r_foreign_keys"
    /\ pending = {}
    /\ out' = out @@ ("foreign_keys" :> ForeignKeysReturn(buckets))
    /\ pc' = "r_table_info"
    /\ UNCHANGED <<schema, pending, buckets, info_row, call>>
    /\ UNCHANGED mainVars

RRecord ==
    /\ pc = "r_table_info"
    /\ \E row \in InfoRows :
        /\ info_row' = row
        /\ out' = TableRecord(<<"t">>, out.columns,
                       [primary_key |-> out.primary_key, unique |-> out.unique],
                       out.indexes, out.foreign_keys, get_table_info(row),
                       get_table_ddl(Some([Table |-> "t", CreateTable |-> "CREATE TABLE t"])))
    /\ pc' = "r_done"
    /\ UNCHANGED <<schema, pending, buckets, call>>
    /\ UNCHANGED mainVars

NextReshape ==
    \/ RColumns
    \/ RConstraintsFetch \/ RConstraintsRow \/ RConstraintsReturn
    \/ RIndexesFetch \/ RIndexesRow \/ RIndexesReturn
    \/ RForeignKeysFetch \/ RForeignKeysRow \/ RForeignKeysReturn
    \/ RRecord

SpecReshape == InitReshape /\ [][NextReshape]_vars

----------------------------------------------------------------------------
(* SpecConfig: get_config_value applied to every combination of tiers     *)

EnvVar == "DB_NAME"

Environs ==
    {<<>>, ("DB_NAME" :> ""), ("DB_NAME" :> "from_env"), ("DB_USER" :> "other")}

ConfigFiles ==
    {[exists |-> FALSE, parses |-> TRUE, sections |-> <<>>],
     [exists |-> TRUE, parses |-> FALSE, sections |-> <<>>],
     [exists |-> TRUE, parses |-> TRUE, sections |-> <<>>],
     [exists |-> TRUE, parses |-> TRUE,
      sections |-> ("export" :> ("name" :> "wrong_section"))],
     [exists |-> TRUE, parses |-> TRUE,
      sections |-> ("database" :> ("user" :> "wrong_key"))],
     [exists |-> TRUE, parses |-> TRUE,
      sections |-> ("database" :> ("name" :> "from_file"))],
     [exists |-> TRUE, parses |-> TRUE,
      sections |-> ("database" :> ("name" :> ""))]}

InitConfig ==
    /\ pc = "c_call"
    /\ call \in {[cli_arg |-> c, env_var |-> EnvVar, environ |-> e,
                  config_file |-> load_config_file(f),
                  section |-> "database", key |-> "name", default |-> d] :
                    c \in {None, Some(""), Some("from_cli")},
                    e \in Environs, f \in ConfigFiles,
                    d \in {None, Some(""), Some("from_default")}}
    /\ MainIdle
    /\ ReshapeIdle

CallGetConfigValue ==
    /\ pc = "c_call"
    /\ call' = call @@ ("result" :>
                 get_config_value(call.cli_arg, call.env_var, call.environ,
                                  call.config_file, call.section, call.key,
                                  call.default))
    /\ pc' = "c_returned"
    /\ UNCHANGED mainVars
    /\ UNCHANGED reshapeVars

NextConfig == CallGetConfigValue

SpecConfig == InitConfig /\ [][NextConfig]_vars

----------------------------------------------------------------------------
(* The table filter: re.compile and pattern.match for patterns made of     *)
(* literal characters, "." and "*"; "(" opens a group that is never closed.*)

(* re.compile raises re.error: an unclosed group, or nothing to repeat *)
ValidRegex(p) ==
    \A i \in 1..Len(p) :
        /\ p[i] # "("
        /\ p[i] = "*" => (i > 1 /\ p[i - 1] # "*")

CharMatches(c, ch) == c = "." \/ c = ch

(* a mutant: pattern.search, which is not anchored at the start *)
RECURSIVE Match(_, _)
RECURSIVE Search(_, _)
Search(p, str) == Match(p, str) \/ (str # <<>> /\ Search(p, Tail(str)))

(* pattern.match(table): the pattern matches a prefix of the name *)
Match(p, str) ==
    IF p = <<>> THEN TRUE
    ELSE IF Len(p) >= 2 /\ p[2] = "*"
    THEN \/ Match(Tail(Tail(p)), str)
         \/ str # <<>> /\ CharMatches(p[1], str[1]) /\ Match(p, Tail(str))
    ELSE str # <<>> /\ CharMatches(p[1], str[1]) /\ Match(Tail(p), Tail(str))

(* a mutant: a table is kept when the pattern is found anywhere in its name *)
TableMatchesAnywhere(table_filter, table) == Search(table_filter, table)

(* "if not pattern.match(table): continue" *)
TableMatches(table_filter, table) == Match(table_filter, table)

(* lines 299-300: a filter wrapped in / ... / loses the delimiters *)
StripDelimiters(f) ==
    IF Len(f) >= 1 /\ f[1] = "/" /\ f[Len(f)] = "/"
    THEN SubSeq(f, 2, Len(f) - 1)
    ELSE f

----------------------------------------------------------------------------
(* int() of the port: the integer itself, or the digits of a string *)

Digits == <<"0","1","2","3","4","5","6","7","8","9">>

IsDigit(c) == \E d \in 1..Len(Digits) : Digits[d] = c

DigitValue(c) == (CHOOSE d \in 1..Len(Digits) : Digits[d] = c) - 1

RECURSIVE ParseDigits(_, _)
ParseDigits(str, acc) ==
    IF str = <<>> THEN acc
    ELSE ParseDigits(Tail(str), 10 * acc + DigitValue(Head(str)))

PInt(n) == [int |-> n]

PStr(str) == [str |-> str]

(* None stands for the ValueError of int() *)
IntOf(v) ==
    IF "int" \in DOMAIN v THEN Some(v.int)
    ELSE IF v.str # <<>> /\ \A i \in 1..Len(v.str) : IsDigit(v.str[i])
    THEN Some(ParseDigits(v.str, 0))
    ELSE None

DefaultPort == 3306

----------------------------------------------------------------------------
(* The inputs of a run: command line, environment, config.ini, database    *)

FilterAll == <<".", "*">>

FilterUsers == <<"u", "_", ".", "*">>

FilterUsersDelimited == <<"/", "u", "_", ".", "*", "/">>

FilterSuffix == <<"a">>

FilterNothing == <<"z", "z">>

FilterUnclosed == <<"u", "(">>

FilterBadRepeat == <<"/", "*", "/">>

Filters == {FilterAll, FilterUsers, FilterUsersDelimited, FilterSuffix,
            FilterNothing, FilterUnclosed, FilterBadRepeat}

NoArgs ==
    [help |-> FALSE, host |-> None, database |-> None, user |-> None,
     password |-> None, port |-> None, output |-> None, filter |-> None]

ArgsSet ==
    {[NoArgs EXCEPT !.help = h, !.database = d, !.user = u, !.filter = f, !.port = p] :
        h \in BOOLEAN, d \in {None, Some("shop")}, u \in {None, Some("root")},
        f \in {None} \cup {Some(x) : x \in Filters},
        p \in {None, Some(PInt(3307))}}

MainEnvirons ==
    {<<>>,
     ("DB_NAME" :> "") @@ ("DB_USER" :> "root"),
     ("DB_USER" :> "") @@ ("SCHEMA_VERSION" :> "v7"),
     ("DB_PORT" :> PStr(<<"a", "b", "c">>)),
     ("DB_PORT" :> PStr(<<"3", "3", "0", "8">>)) @@ ("TABLE_NAME_REGEXP" :> FilterSuffix)}

MainConfigFiles ==
    {[exists |-> FALSE, parses |-> TRUE, sections |-> <<>>],
     [exists |-> TRUE, parses |-> TRUE,
      sections |-> ("database" :> (("name" :> "shop") @@ ("user" :> "root")))
                   @@ ("export" :> ("table_filter" :> FilterNothing))]}

(* lines 288-300 *)
Resolve(args, environ, config_file) ==
    [db_host |-> Val(get_config_value(args.host, "DB_HOST", environ, config_file,
                                      "database", "host", Some("localhost"))),
     db_name |-> Val(get_config_value(args.database, "DB_NAME", environ, config_file,
                                      "database", "name", Some(""))),
     db_user |-> Val(get_config_value(args.user, "DB_USER", environ, config_file,
                                      "database", "user", Some(""))),
     db_pass |-> Val(get_config_value(args.password, "DB_PASS", environ, config_file,
                                      "database", "password", Some(""))),
     db_port |-> IntOf(Val(get_config_value(args.port, "DB_PORT", environ, config_file,
                                      "database", "port", Some(PInt(DefaultPort))))),
     table_filter |-> StripDelimiters(
                      Val(get_config_value(args.filter, "TABLE_NAME_REGEXP", environ,
                                      config_file, "export", "table_filter",
                                      Some(FilterAll)))),
     output_dir |-> Val(get_config_value(args.output, "OUTPUT_DIR", environ, config_file,
                                      "export", "output_dir", Some("./export"))),
     schema_version |-> IF IsNone(getenv(environ, "SCHEMA_VERSION"))
                        THEN "today" ELSE Val(getenv(environ, "SCHEMA_VERSION"))]

(* the base tables of the database and what the catalog holds for each *)
TableUA == <<"u", "_", "a">>

TableUB == <<"u", "_", "b">>

TableO == <<"o", "a">>

TableNames == {TableUA, TableUB, TableO}

MaxTables == 2

(* SHOW FULL TABLES WHERE Table_type = 'BASE TABLE': the tables that exist *)
Listings ==
    UNION {{l \in [1..n -> TableNames] : \A i, j \in 1..n : l[i] = l[j] => i = j} :
              n \in 0..MaxTables}

Catalog(table) ==
    IF table = TableUA
    THEN [schema |-> [pk |-> KeyAt(0, 2), pk_index_name |-> PRIMARY, uniques |-> {},
                      indexes |-> {}, fks |-> {}],
          info |-> Some([TABLE_ROWS |-> Some(5), ENGINE |-> Some("InnoDB"),
                         TABLE_COLLATION |-> Some("utf8mb4_general_ci")]),
          ddl |-> Some([Table |-> "u_a", CreateTable |-> "CREATE TABLE u_a"])]
    ELSE IF table = TableUB
    THEN [schema |-> [pk |-> KeyAt(0, 1), pk_index_name |-> PRIMARY,
                      uniques |-> {[name |-> NameU1, columns |-> KeyAt(1, 1)]},
                      indexes |-> {},
                      fks |-> {[name |-> NameFk, columns |-> KeyAt(2, 1),
                                ref_table |-> "parent", ref_columns |-> RefKey(1),
                                on_update |-> "CASCADE", on_delete |-> "RESTRICT"]}],
          info |-> Some([TABLE_ROWS |-> None, ENGINE |-> Some("InnoDB"),
                         TABLE_COLLATION |-> None]),
          ddl |-> Some([Table |-> "u_b"])]
    ELSE [schema |-> [pk |-> <<>>, pk_index_name |-> PRIMARY, uniques |-> {},
                      indexes |-> {[name |-> NameIx, columns |-> KeyAt(3, 1)]},
                      fks |-> {}],
          info |-> None,
          ddl |-> None]

(* the six statements main() executes for one table *)
QueriesPerTable == 6

----------------------------------------------------------------------------
(* Spec: one run of main() *)

Init ==
    /\ pc = "start"
    /\ conf = None /\ exit_code = None /\ error = "none"
    /\ conn = "none" /\ connects = 0 /\ queries = 0
    /\ fs \in {[dir |-> "absent", file |-> [state |-> "absent", doc |-> None]],
               [dir |-> "present", file |-> [state |-> "absent", doc |-> None]],
               [dir |-> "present", file |-> [state |-> "old", doc |-> None]]}
    /\ fs0 = fs
    /\ opens = 0
    /\ all_tables = <<>> /\ cur = 1 /\ tables_out = <<>>
    /\ ReshapeIdle
    /\ call = NoCall

Exit(code, why) ==
    /\ pc' = "done"
    /\ exit_code' = Some(code)
    /\ error' = why

(* lines 279-283: --help *)
ShowHelp ==
    /\ pc = "start"
    /\ \E args \in ArgsSet : args.help
    /\ Exit(0, "help")
    /\ UNCHANGED <<conf, conn, connects, queries, fs, fs0, opens, all_tables, cur, tables_out>>
    /\ UNCHANGED reshapeVars /\ UNCHANGED call

(* lines 285-300 *)
ResolveConfig ==
    /\ pc = "start"
    /\ \E args \in ArgsSet, environ \in MainEnvirons, file \in MainConfigFiles :
          LET r == Resolve(args, environ, load_config_file(file))
          IN  /\ ~args.help
              /\ ~IsNone(r.db_port)
              /\ conf' = Some([r EXCEPT !.db_port = Val(r.db_port)])
    /\ pc' = "validate"
    /\ UNCHANGED <<exit_code, error, conn, connects, queries, fs, fs0, opens,
                   all_tables, cur, tables_out>>
    /\ UNCHANGED reshapeVars /\ UNCHANGED call

(* line 292: int() raises ValueError, which nothing catches *)
ResolvePortError ==
    /\ pc = "start"
    /\ \E args \in ArgsSet, environ \in MainEnvirons, file \in MainConfigFiles :
          /\ ~args.help
          /\ IsNone(Resolve(args, environ, load_config_file(file)).db_port)
    /\ Exit(1, "port")
    /\ UNCHANGED <<conf, conn, connects, queries, fs, fs0, opens, all_tables, cur, tables_out>>
    /\ UNCHANGED reshapeVars /\ UNCHANGED call

(* a mutant: only the database name is required *)
MissingRequiredNameOnly(c) == c.db_name = ""

(* "not db_name or not db_user" *)
MissingRequired(c) == c.db_name = "" \/ c.db_user = ""

(* lines 302-307 *)
RequiredMissing ==
    /\ pc = "validate"
    /\ MissingRequired(Val(conf))
    /\ Exit(1, "config")
    /\ UNCHANGED <<conf, conn, connects, queries, fs, fs0, opens, all_tables, cur, tables_out>>
    /\ UNCHANGED reshapeVars /\ UNCHANGED call

(* lines 309-314 *)
InvalidFilter ==
    /\ pc = "validate"
    /\ ~MissingRequired(Val(conf))
    /\ ~ValidRegex(Val(conf).table_filter)
    /\ Exit(1, "regex")
    /\ UNCHANGED <<conf, conn, connects, queries, fs, fs0, opens, all_tables, cur, tables_out>>
    /\ UNCHANGED reshapeVars /\ UNCHANGED call

(* a mutant: the filter is not compiled before the connection is made *)
ValidatedUnchecked ==
    /\ pc = "validate"
    /\ ~MissingRequired(Val(conf))
    /\ pc' = "mkdir"
    /\ UNCHANGED mainVars
    /\ UNCHANGED reshapeVars /\ UNCHANGED call

(* lines 302-314, both checks passed *)
Validated ==
    /\ pc = "validate"
    /\ ~MissingRequired(Val(conf))
    /\ ValidRegex(Val(conf).table_filter)
    /\ pc' = "mkdir"
    /\ UNCHANGED mainVars
    /\ UNCHANGED reshapeVars /\ UNCHANGED call

(* lines 316-318: mkdir(parents=True, exist_ok=True) *)
CreateOutputDir ==
    /\ pc = "mkdir"
    /\ fs' = [fs EXCEPT !.dir = "present"]
    /\ pc' = "connect"
    /\ UNCHANGED <<conf, exit_code, error, conn, connects, queries, fs0, opens,
                   all_tables, cur, tables_out>>
    /\ UNCHANGED reshapeVars /\ UNCHANGED call

(* line 317: mkdir raises, which nothing catches *)
CreateOutputDirFails ==
    /\ pc = "mkdir"
    /\ fs.dir = "absent"
    /\ Exit(1, "mkdir")
    /\ UNCHANGED <<conf, conn, connects, queries, fs, fs0, opens, all_tables, cur, tables_out>>
    /\ UNCHANGED reshapeVars /\ UNCHANGED call

(* lines 320-331 *)
Connect ==
    /\ pc = "connect"
    /\ conn' = "open"
    /\ connects' = connects + 1
    /\ pc' = "list"
    /\ UNCHANGED <<conf, exit_code, error, queries, fs, fs0, opens, all_tables, cur, tables_out>>
    /\ UNCHANGED reshapeVars /\ UNCHANGED call

(* lines 332-334 *)
ConnectFails ==
    /\ pc = "connect"
    /\ Exit(1, "connect")
    /\ UNCHANGED <<conf, conn, connects, queries, fs, fs0, opens, all_tables, cur, tables_out>>
    /\ UNCHANGED reshapeVars /\ UNCHANGED call

(* a mutant: the connection is not closed on the way out *)
FinallyMissing == conn' = conn

(* the finally clause, lines 401-402 *)
Finally == conn' = "closed"

(* lines 337-349 *)
ListTables ==
    /\ pc = "list"
    /\ queries' = queries + 1
    /\ \E l \in Listings : all_tables' = l
    /\ cur' = 1
    /\ tables_out' = <<>>
    /\ pc' = "loop"
    /\ UNCHANGED <<conf, exit_code, error, conn, connects, fs, fs0, opens>>
    /\ UNCHANGED reshapeVars /\ UNCHANGED call

(* line 339 raises: the exception leaves main() through the finally clause *)
ListTablesFails ==
    /\ pc = "list"
    /\ queries' = queries + 1
    /\ Finally
    /\ Exit(1, "query")
    /\ UNCHANGED <<conf, connects, fs, fs0, opens, all_tables, cur, tables_out>>
    /\ UNCHANGED reshapeVars /\ UNCHANGED call

(* lines 351-354 *)
SkipTable ==
    /\ pc = "loop"
    /\ cur <= Len(all_tables)
    /\ ~TableMatches(Val(conf).table_filter, all_tables[cur])
    /\ cur' = cur + 1
    /\ UNCHANGED <<pc, conf, exit_code, error, conn, connects, queries, fs, fs0, opens,
                   all_tables, tables_out>>
    /\ UNCHANGED reshapeVars /\ UNCHANGED call

(* lines 356-377: the six queries of a table, their rows in any order *)
ProcessTable ==
    /\ pc = "loop"
    /\ cur <= Len(all_tables)
    /\ TableMatches(Val(conf).table_filter, all_tables[cur])
    /\ LET table == all_tables[cur]
           c == Catalog(table)
       IN  \E crows \in Orders(ConstraintRows(c.schema)),
              irows \in Orders(IndexRows(c.schema)),
              frows \in Orders(ForeignKeyRows(c.schema)) :
                tables_out' = Append(tables_out,
                    TableRecord(table, get_table_columns(ColumnRows(c.schema)),
                                get_table_constraints(crows), get_table_indexes(irows),
                                get_table_foreign_keys(frows), get_table_info(c.info),
                                get_table_ddl(c.ddl)))
    /\ queries' = queries + QueriesPerTable
    /\ cur' = cur + 1
    /\ UNCHANGED <<pc, conf, exit_code, error, conn, connects, fs, fs0, opens, all_tables>>
    /\ UNCHANGED reshapeVars /\ UNCHANGED call

(* a mutant: the failure of a table's query is caught and the table left out *)
TableQueryFailsSkipped ==
    /\ pc = "loop"
    /\ cur <= Len(all_tables)
    /\ TableMatches(Val(conf).table_filter, all_tables[cur])
    /\ \E k \in 1..QueriesPerTable : queries' = queries + k
    /\ cur' = cur + 1
    /\ error' = "query"
    /\ UNCHANGED <<pc, conf, exit_code, conn, connects, fs, fs0, opens, all_tables, tables_out>>
    /\ UNCHANGED reshapeVars /\ UNCHANGED call

(* lines 360-365: the k-th query of a matching table raises; the exception *)
(* leaves main() through the finally clause                                *)
TableQueryFails ==
    /\ pc = "loop"
    /\ cur <= Len(all_tables)
    /\ TableMatches(Val(conf).table_filter, all_tables[cur])
    /\ \E k \in 1..QueriesPerTable : queries' = queries + k
    /\ Finally
    /\ Exit(1, "query")
    /\ UNCHANGED <<conf, connects, fs, fs0, opens, all_tables, cur, tables_out>>
    /\ UNCHANGED reshapeVars /\ UNCHANGED call

(* lines 379-385 *)
Document ==
    [database |-> Val(conf).db_name, generated_at |-> "now",
     schema_version |-> Val(conf).schema_version, tables |-> tables_out]

(* lines 387-395, then the finally clause and the end of main() *)
WriteOutput ==
    /\ pc = "loop"
    /\ cur > Len(all_tables)
    /\ opens' = opens + 1
    /\ fs' = [fs EXCEPT !.file = [state |-> "written", doc |-> Some(Document)]]
    /\ Finally
    /\ Exit(0, "none")
    /\ UNCHANGED <<conf, connects, queries, fs0, all_tables, cur, tables_out>>
    /\ UNCHANGED reshapeVars /\ UNCHANGED call

(* line 389 raises: open() failed and the file is as it was; lines 397-399 *)
OpenOutputFails ==
    /\ pc = "loop"
    /\ cur > Len(all_tables)
    /\ Finally
    /\ Exit(1, "write")
    /\ UNCHANGED <<conf, connects, queries, fs, fs0, opens, all_tables, cur, tables_out>>
    /\ UNCHANGED reshapeVars /\ UNCHANGED call

(* line 390 raises: the file was opened, hence truncated; lines 397-399 *)
DumpFails ==
    /\ pc = "loop"
    /\ cur > Len(all_tables)
    /\ opens' = opens + 1
    /\ fs' = [fs EXCEPT !.file = [state |-> "partial", doc |-> None]]
    /\ Finally
    /\ Exit(1, "write")
    /\ UNCHANGED <<conf, connects, queries, fs0, all_tables, cur, tables_out>>
    /\ UNCHANGED reshapeVars /\ UNCHANGED call

Next ==
    \/ ShowHelp
    \/ ResolveConfig \/ ResolvePortError
    \/ RequiredMissing \/ InvalidFilter \/ Validated
    \/ CreateOutputDir \/ CreateOutputDirFails
    \/ Connect \/ ConnectFails
    \/ ListTables \/ ListTablesFails
    \/ SkipTable \/ ProcessTable \/ TableQueryFails
    \/ WriteOutput \/ OpenOutputFails \/ DumpFails

Spec == Init /\ [][Next]_vars

----------------------------------------------------------------------------
(* Properties of the reshapers (SpecReshape) *)

(* the columns of a set of <<position, column>> pairs by ascending position *)
RankedColumns(P) ==
    [i \in 1..Cardinality(P) |->
        (CHOOSE e \in P : Cardinality({e2 \in P : e2[1] < e[1]}) = i - 1)[2]]

ConstraintsReturned == "primary_key" \in DOMAIN out

IndexesReturned == "indexes" \in DOMAIN out

ForeignKeysReturned == "foreign_keys" \in DOMAIN out

ConstraintColumns(type, name) ==
    {<<r.ORDINAL_POSITION, r.COLUMN_NAME>> :
        r \in {q \in ConstraintRows(schema) :
                 q.CONSTRAINT_TYPE = type /\ q.CONSTRAINT_NAME = name}}

UniqueNames ==
    {r.CONSTRAINT_NAME : r \in {q \in ConstraintRows(schema) : q.CONSTRAINT_TYPE = "UNIQUE"}}

IndexColumns(name) ==
    {<<r.SEQ_IN_INDEX, r.COLUMN_NAME>> :
        r \in {q \in IndexRows(schema) : q.INDEX_NAME = name}}

SecondaryNames ==
    {r.INDEX_NAME : r \in IndexRows(schema)} \ {schema.pk_index_name}

(* C1: whatever the order in which the catalog rows arrive, the primary    *)
(* key, every unique constraint and every secondary index is returned      *)
(* once, with its columns in ascending ORDINAL_POSITION / SEQ_IN_INDEX.     *)
C1_PositionOrder ==
    /\ ConstraintsReturned =>
        /\ out.primary_key = RankedColumns(ConstraintColumns("PRIMARY KEY", PRIMARY))
        /\ Len(out.unique) = Cardinality(UniqueNames)
        /\ \A n \in UniqueNames :
             \E i \in 1..Len(out.unique) :
                /\ out.unique[i].name = n
                /\ out.unique[i].columns = RankedColumns(ConstraintColumns("UNIQUE", n))
    /\ IndexesReturned =>
        /\ Len(out.indexes) = Cardinality(SecondaryNames)
        /\ \A n \in SecondaryNames :
             \E i \in 1..Len(out.indexes) :
                /\ out.indexes[i].name = n
                /\ out.indexes[i].columns = RankedColumns(IndexColumns(n))

(* the rows of a two-column primary key and of a two-column unique         *)
(* constraint both arrived last column first, and were reordered           *)
C1_Witness ==
    /\ pc = "r_indexes_fetch"
    /\ DictKeys(buckets.primary_key) = <<2, 1>>
    /\ out.primary_key = KeyAt(0, 2)
    /\ \E i \in 1..Len(buckets.unique_constraints) :
          /\ DictKeys(buckets.unique_constraints[i][2]) = <<2, 1>>
          /\ out.unique[i].columns = KeyAt(1, 2)

FkProcessed == ForeignKeyRows(schema) \ pending

FkAligned(fk, rows) ==
    /\ Len(fk.columns) = Len(fk.ref_columns)
    /\ Len(fk.columns) = Cardinality({r \in rows : r.CONSTRAINT_NAME = fk.name})
    /\ \A j \in 1..Len(fk.columns) :
          \E r \in rows : /\ r.CONSTRAINT_NAME = fk.name
                          /\ r.COLUMN_NAME = fk.columns[j]
                          /\ r.ref_column = fk.ref_columns[j]

(* C2: after every processed row and in the returned list, each foreign    *)
(* key's columns and ref_columns have the same length and columns[i] and   *)
(* ref_columns[i] come from one catalog row of that constraint.            *)
C2_ForeignKeyAligned ==
    /\ pc = "r_foreign_keys" =>
          \A i \in 1..Len(buckets) : FkAligned(buckets[i][2], FkProcessed)
    /\ ForeignKeysReturned =>
          \A i \in 1..Len(out.foreign_keys) :
              FkAligned(out.foreign_keys[i], ForeignKeyRows(schema))

(* a two-column foreign key was returned whose rows arrived in the reverse *)
(* of the declared order                                                   *)
C2_Witness ==
    /\ ForeignKeysReturned
    /\ \E i \in 1..Len(out.foreign_keys) :
          /\ out.foreign_keys[i].columns = <<KeyAt(2, 2)[2], KeyAt(2, 2)[1]>>
          /\ out.foreign_keys[i].ref_columns = <<RefKey(2)[2], RefKey(2)[1]>>

(* C3: the returned index list has no entry named PRIMARY in any case, and *)
(* has an entry for every other index name among the rows.                 *)
C3_NoPrimaryIndex ==
    IndexesReturned =>
        /\ \A i \in 1..Len(out.indexes) : Upper(out.indexes[i].name) # PRIMARY
        /\ \A n \in {r.INDEX_NAME : r \in IndexRows(schema)} :
              Upper(n) # PRIMARY => \E i \in 1..Len(out.indexes) : out.indexes[i].name = n

(* the primary key's index was reported in lower case beside an index      *)
(* whose name contains "primary"; only the latter was returned             *)
C3_Witness ==
    /\ IndexesReturned
    /\ schema.pk # <<>>
    /\ schema.pk_index_name = <<"p","r","i","m","a","r","y">>
    /\ \E i \in 1..Len(out.indexes) : out.indexes[i].name = NameIx

InEntry(list, name, col) ==
    \E i \in 1..Len(list) : list[i].name = name /\ col \in Range(list[i].columns)

(* C10: every row of the constraint, index and foreign-key queries has its *)
(* column in the table record (a primary-key row in primary_key, a unique  *)
(* row in its unique entry, a foreign-key row in its foreign_keys entry,   *)
(* an index row in its indexes entry or, for the primary key's index, in   *)
(* primary_key), and the absent optional fields are None.                  *)
C10_NoRowDropped ==
    pc = "r_done" =>
        /\ \A r \in ConstraintRows(schema) :
              /\ r.CONSTRAINT_TYPE = "PRIMARY KEY" => r.COLUMN_NAME \in Range(out.primary_key)
              /\ r.CONSTRAINT_TYPE = "UNIQUE" =>
                    InEntry(out.unique, r.CONSTRAINT_NAME, r.COLUMN_NAME)
              /\ r.CONSTRAINT_TYPE = "FOREIGN KEY" =>
                    InEntry(out.foreign_keys, r.CONSTRAINT_NAME, r.COLUMN_NAME)
        /\ \A r \in IndexRows(schema) :
              \/ InEntry(out.indexes, r.INDEX_NAME, r.COLUMN_NAME)
              \/ /\ r.INDEX_NAME = schema.pk_index_name
                 /\ r.COLUMN_NAME \in Range(out.primary_key)
        /\ \A r \in ForeignKeyRows(schema) :
              /\ InEntry(out.foreign_keys, r.CONSTRAINT_NAME, r.COLUMN_NAME)
              /\ \E i \in 1..Len(out.foreign_keys) :
                    /\ out.foreign_keys[i].name = r.CONSTRAINT_NAME
                    /\ r.ref_column \in Range(out.foreign_keys[i].ref_columns)
        /\ IsNone(info_row) =>
              out.table_info = [row_count_est |-> None, engine |-> None, collation |-> None]
        /\ ~IsNone(info_row) =>
              /\ out.table_info.row_count_est = Val(info_row).TABLE_ROWS
              /\ out.table_info.engine = Val(info_row).ENGINE
              /\ out.table_info.collation = Val(info_row).TABLE_COLLATION
        /\ \A i \in 1..Len(out.columns) :
              out.columns[i].default = ColumnRows(schema)[i].COLUMN_DEFAULT

(* a record of a table with a primary key, a unique constraint and a       *)
(* foreign key, whose table row has no row count, and a column no default  *)
C10_Witness ==
    /\ pc = "r_done"
    /\ schema.pk # <<>> /\ schema.uniques # {} /\ schema.fks # {}
    /\ Len(out.primary_key) = Len(schema.pk)
    /\ Len(out.foreign_keys) = 1
    /\ ~IsNone(info_row) /\ IsNone(Val(info_row).TABLE_ROWS)
    /\ IsNone(out.table_info.row_count_est)
    /\ \E i \in 1..Len(out.columns) : IsNone(out.columns[i].default)

----------------------------------------------------------------------------
(* Properties of the configuration resolver (SpecConfig) *)

CliPresent == ~IsNone(call.cli_arg)

EnvPresent == call.env_var \in DOMAIN call.environ

FilePresent ==
    /\ call.section \in DOMAIN call.config_file.sections
    /\ call.key \in DOMAIN call.config_file.sections[call.section]

(* C5: get_config_value returns the first present of the CLI argument, the *)
(* environment variable, the config-file key and the default: a lower tier *)
(* is returned only when every higher tier is absent.                      *)
C5_Precedence ==
    pc = "c_returned" =>
        /\ CliPresent => call.result = call.cli_arg
        /\ ~CliPresent /\ EnvPresent =>
              call.result = Some(call.environ[call.env_var])
        /\ ~CliPresent /\ ~EnvPresent /\ FilePresent =>
              call.result = Some(call.config_file.sections[call.section][call.key])
        /\ ~CliPresent /\ ~EnvPresent /\ ~FilePresent => call.result = call.default

(* the environment variable is set but empty, the file and the default     *)
(* have other values, and the empty string is what the call returned       *)
C5_Witness ==
    /\ pc = "c_returned"
    /\ ~CliPresent /\ EnvPresent /\ FilePresent
    /\ call.environ[call.env_var] = ""
    /\ call.config_file.sections[call.section][call.key] = "from_file"
    /\ call.default = Some("from_default")
    /\ call.result = Some("")

----------------------------------------------------------------------------
(* Properties of the run of main() (Spec) *)

Resolved == ~IsNone(conf)

Succeeded == pc = "done" /\ exit_code = Some(0) /\ error = "none"

TableNamesOf(records) == [i \in 1..Len(records) |-> records[i].name]

(* the catalog listing restricted to the names the filter matches *)
MatchingTables ==
    LET Matches(t) == Match(Val(conf).table_filter, t)
    IN  SelectSeq(all_tables, Matches)

(* C4: after a successful run the document's tables are the listed base    *)
(* tables the filter matches, in listing order, one record each; all of    *)
(* them for the filter .*, and none, in a document written all the same,   *)
(* for a filter that matches no table.                                     *)
C4_TablesAreFilteredListing ==
    Succeeded =>
        /\ fs.file.state = "written"
        /\ TableNamesOf(Val(fs.file.doc).tables) = MatchingTables
        /\ Val(conf).table_filter = FilterAll =>
              TableNamesOf(Val(fs.file.doc).tables) = all_tables
        /\ Val(conf).table_filter = FilterNothing => Val(fs.file.doc).tables = <<>>

(* a successful run of the filter u_.* over a listing of a table it does   *)
(* not match followed by one it matches                                    *)
C4_Witness ==
    /\ Succeeded
    /\ Val(conf).table_filter = FilterUsers
    /\ all_tables = <<TableO, TableUA>>
    /\ TableNamesOf(Val(fs.file.doc).tables) = <<TableUA>>

(* C6: once the database name or the user is resolved empty, the run only  *)
(* exits, with status 1: directory and file are as they were, and no       *)
(* connection was opened.                                                  *)
C6_MissingRequiredAborts ==
    (Resolved /\ (Val(conf).db_name = "" \/ Val(conf).db_user = "")) =>
        /\ pc \in {"validate", "done"}
        /\ pc = "done" => exit_code = Some(1)
        /\ fs = fs0 /\ opens = 0
        /\ conn = "none" /\ connects = 0 /\ queries = 0

(* a run with a database name and an empty user has exited with status 1   *)
(* where the output directory did not exist                                *)
C6_Witness ==
    /\ pc = "done" /\ Resolved
    /\ Val(conf).db_name = "shop" /\ Val(conf).db_user = ""
    /\ exit_code = Some(1)
    /\ fs0.dir = "absent" /\ fs.dir = "absent"

(* C7: when the filter, delimiters stripped, does not compile, the run     *)
(* only exits, with status 1: no connection is opened and no query issued. *)
C7_InvalidFilterAborts ==
    (Resolved /\ ~ValidRegex(Val(conf).table_filter)) =>
        /\ pc \in {"validate", "done"}
        /\ pc = "done" => exit_code = Some(1)
        /\ conn = "none" /\ connects = 0 /\ queries = 0

(* the filter /*/ was stripped to *, which does not compile, and the run   *)
(* of a fully configured program exited on it                              *)
C7_Witness ==
    /\ pc = "done" /\ error = "regex" /\ exit_code = Some(1)
    /\ Val(conf).table_filter = <<"*">>
    /\ Val(conf).db_name = "shop" /\ Val(conf).db_user = "root"

(* C8: at most one connection is acquired, and the process never ends with *)
(* it open.                                                                *)
C8_ConnectionReleased ==
    /\ connects <= 1
    /\ conn # "none" => connects = 1
    /\ pc = "done" => conn # "open"

(* a run whose table query failed after one table was processed has ended  *)
(* with the connection closed                                              *)
C8_Witness ==
    /\ pc = "done" /\ error = "query"
    /\ Len(tables_out) = 1
    /\ connects = 1 /\ conn = "closed"

(* C9: a failed query ends the run at once with a nonzero status and the   *)
(* output file untouched; the file is opened at most once, and only when   *)
(* every matching table has its record.                                    *)
C9_NoPartialExport ==
    /\ error = "query" =>
          /\ pc = "done"
          /\ ~IsNone(exit_code) /\ exit_code # Some(0)
          /\ opens = 0 /\ fs.file = fs0.file
    /\ opens <= 1
    /\ opens = 1 =>
          /\ cur > Len(all_tables)
          /\ TableNamesOf(tables_out) = MatchingTables
    /\ fs.file # fs0.file => opens = 1

(* the second matching table's query failed after the first table's record *)
(* was built: the run ended with status 1 and the old file as it was       *)
C9_Witness ==
    /\ pc = "done" /\ error = "query" /\ exit_code = Some(1)
    /\ Len(tables_out) = 1 /\ Len(MatchingTables) = 2
    /\ fs0.file.state = "old" /\ fs.file = fs0.file

====
